---- MODULE Spec2Model ----
(***************************************************************************)
(* Model of pyro/contrib/funsor/infer/traceenum_elbo.py: terms_from_trace  *)
(* and the differentiable_loss bodies of TraceEnum_ELBO (plate-parallel    *)
(* path) and TraceMarkovEnum_ELBO (Markov path).                           *)
(*                                                                         *)
(* A funsor is modelled by what the code reads of it: its inputs (a set of *)
(* variable names), the site it was built at, and the product of the       *)
(* scales that were multiplied into it.  The sum-product engine and the    *)
(* adjoint pass live in the funsor library; they are modelled at the level *)
(* of input sets from their contract.                                      *)
(***************************************************************************)
EXTENDS Integers, Sequences, FiniteSets, TLC

VARIABLES
    pc,                    \* position in the running function
    tr, i, terms,          \* terms_from_trace: the trace, the loop index, the bundle
    path,                  \* "plate" (TraceEnum_ELBO) or "markov" (TraceMarkovEnum_ELBO)
    guide_tr, model_tr,    \* differentiable_loss: the two traces
    guide_terms, model_terms,
    contracted_factors, uncontracted_factors,
    eliminate,             \* eliminate= of the model-side engine call
    guide_eliminate,       \* eliminate= of the guide-side engine call (Markov path)
    contracted_costs, costs,
    log_qs,                \* recovered marginals (Markov path)
    elbo,                  \* one entry per accumulated elbo_term
    k                      \* index of the cost the assembly loop is at

vars == <<pc, tr, i, terms, path, guide_tr, model_tr, guide_terms, model_terms,
          contracted_factors, uncontracted_factors, eliminate, guide_eliminate,
          contracted_costs, costs, log_qs, elbo, k>>

termsVars == <<tr, i, terms>>
lossVars == <<path, guide_tr, model_tr, guide_terms, model_terms,
              contracted_factors, uncontracted_factors, eliminate, guide_eliminate,
              contracted_costs, costs, log_qs, elbo, k>>

(***************************************************************************)
(* Bounds                                                                  *)
(***************************************************************************)
NumSites == 2          \* records in the trace handed to terms_from_trace
NumGuideSites == 1     \* records in the guide trace of differentiable_loss
NumModelSites == 2     \* records in the model trace of differentiable_loss

SiteNames == <<"a", "b", "c", "d", "e">>     \* name of the sample site at each position
Scales == {1, 2}                             \* subsampling scales

(***************************************************************************)
(* Funsors                                                                 *)
(***************************************************************************)
\* node["funsor"].get("log_measure", None) of a site without a measure
None == [kind |-> "None", site |-> "", inputs |-> {}, mult |-> 1]

Funsor(kind, site, inputs) == [kind |-> kind, site |-> site, inputs |-> inputs, mult |-> 1]

\* log_prob * scale: the inputs stay, the factor carries the scale
Mul(f, scale) == [f EXCEPT !.mult = @ * scale]

\* python dicts (plate_to_step)
EmptyDict == [x \in {} |-> {}]
DictSet(d, key, v) == [x \in (DOMAIN d) \cup {key} |-> IF x = key THEN v ELSE d[x]]
DictGet(d, key, default) == IF key \in DOMAIN d THEN d[key] ELSE default

(***************************************************************************)
(* terms_from_trace                                                        *)
(***************************************************************************)
EmptyTerms ==
    [log_factors |-> <<>>, log_measures |-> <<>>, scale |-> 1,
     plate_vars |-> {}, measure_vars |-> {}, plate_to_step |-> EmptyDict]

\* faulty variant: a site marked _do_not_score is scored all the same
ScoredIgnoringDoNotScore(node) ==
    node.type = "sample" /\ node.fn # "_Subsample"

\* the negation of the `continue` condition
Scored(node) ==
    ~(node.type # "sample" \/ node.fn = "_Subsample" \/ node.infer.do_not_score)

VectorizedPlates(node) == {f.name : f \in {g \in node.cond_indep_stack : g.vectorized}}

\* faulty variant: the plates are not subtracted
SiteMeasureVarsKeepingPlates(name, node, plate_vars) ==
    node.funsor.value.inputs \cup {name}

\* the fresh non-plate variables at a site
SiteMeasureVars(name, node, plate_vars) ==
    (node.funsor.value.inputs \cup {name}) \ plate_vars

\* model site that depends on enumerated variable: common scale
IsCommonScaleSite(node, measure_vars) ==
    /\ node.replay_active
    /\ node.funsor.log_prob.inputs \cap measure_vars # {}
    /\ node.funsor.scale # 1

\* faulty variant: observed sites that replay skipped are dropped
KeepsLogFactorIfNotSkipped(node) == ~node.replay_skipped

\* the log-density is found at all sites except those that are not replayed
KeepsLogFactor(node) == node.is_observed \/ ~node.replay_skipped

\* one iteration of the loop over tr.nodes.items(): the bundle and the node after it
ProcessNode(t0, name, node) ==
    LET t1 == IF node.type = "markov_chain"
              THEN [t0 EXCEPT !.plate_to_step = DictSet(@, node.name, node.value)]
              ELSE t0
    IN  IF ~Scored(node) THEN [terms |-> t1, node |-> node]
        ELSE
        LET t2 == [t1 EXCEPT !.plate_vars = @ \cup VectorizedPlates(node)]
            t3 == IF node.funsor.log_measure # None
                  THEN [t2 EXCEPT
                          !.log_measures = Append(@, node.funsor.log_measure),
                          !.measure_vars = @ \cup SiteMeasureVars(name, node, t2.plate_vars)]
                  ELSE t2
            common == IsCommonScaleSite(node, t3.measure_vars)
            t4 == IF common THEN [t3 EXCEPT !.scale = node.funsor.scale] ELSE t3
            n4 == IF common THEN node
                  ELSE [node EXCEPT !.funsor.log_prob = Mul(@, node.funsor.scale)]
            t5 == IF KeepsLogFactor(n4)
                  THEN [t4 EXCEPT !.log_factors = Append(@, n4.funsor.log_prob)]
                  ELSE t4
        IN  [terms |-> t5, node |-> n4]

\* faulty variant: every plate of plate_vars is reset to the empty descriptor
OverwritePlateSteps(t) ==
    [t EXCEPT !.plate_to_step =
        [x \in (DOMAIN t.plate_to_step) \cup t.plate_vars |->
            IF x \in t.plate_vars THEN {} ELSE t.plate_to_step[x]]]

\* add plate dimensions to the plate_to_step dictionary
AddPlateSteps(t) ==
    [t EXCEPT !.plate_to_step =
        [x \in (DOMAIN t.plate_to_step) \cup t.plate_vars |->
            IF x \in t.plate_vars THEN DictGet(t.plate_to_step, x, {}) ELSE t.plate_to_step[x]]]

\* the loop from record j on, as a fold: the bundle and the trace it leaves
RECURSIVE LoopFrom(_, _, _)
LoopFrom(t, trace, j) ==
    IF j > Len(trace) THEN [terms |-> t, tr |-> trace]
    ELSE LET r == ProcessNode(t, trace[j].name, trace[j])
         IN  LoopFrom(r.terms, [trace EXCEPT ![j] = r.node], j + 1)

\* the whole function: the returned bundle and the trace as the call leaves it
terms_from_trace(trace) ==
    LET r == LoopFrom(EmptyTerms, trace, 1)
    IN  [terms |-> AddPlateSteps(r.terms), tr |-> r.tr]

(***************************************************************************)
(* Traces: the records the execution-trace collaborator hands over         *)
(***************************************************************************)
Plate(name, vectorized) == [name |-> name, vectorized |-> vectorized]

\* a sample record.  An enumerated site carries a log_measure and a value over
\* its own name, expanded over its vectorized plates; deps are the upstream
\* enumerated variables its density depends on.
SampleNode(name, stack, fn, dns, enumerated, obs, active, skipped, scale, deps) ==
    LET plates == {f.name : f \in {g \in stack : g.vectorized}}
        own == IF enumerated THEN {name} ELSE {}
    IN  [type |-> "sample", name |-> name, fn |-> fn, value |-> {},
         infer |-> [do_not_score |-> dns], cond_indep_stack |-> stack,
         is_observed |-> obs, replay_active |-> active, replay_skipped |-> skipped,
         funsor |-> [log_measure |-> IF enumerated
                                     THEN Funsor("log_measure", name, plates \cup own \cup deps)
                                     ELSE None,
                     value |-> [inputs |-> plates \cup own],
                     log_prob |-> Funsor("log_prob", name, plates \cup own \cup deps),
                     scale |-> scale]]

\* a record of another type: only type, name and value are read
OtherNode(type, name, value) ==
    [type |-> type, name |-> name, fn |-> "None", value |-> value,
     infer |-> [do_not_score |-> FALSE], cond_indep_stack |-> {},
     is_observed |-> FALSE, replay_active |-> FALSE, replay_skipped |-> FALSE,
     funsor |-> [log_measure |-> None, value |-> [inputs |-> {}],
                 log_prob |-> None, scale |-> 1]]

Steps == {{}, {<<"prev", "curr">>}}      \* step descriptors: empty, or one chain
MarkovPlates == {"p", "q"}
Stacks == {{}, {Plate("p", TRUE), Plate("q", TRUE), Plate("r", FALSE)}}

\* what the collaborator decides about one record
Shape(kind, st, ob, sk, sc, up) ==
    [kind |-> kind, st |-> st, ob |-> ob, sk |-> sk, sc |-> sc, up |-> up]

\* the shapes of the records of a trace; replay says whether the trace was
\* recorded under the replay handler (only then can replay have skipped a site)
Shapes(replay) ==
    LET skips == IF replay THEN BOOLEAN ELSE {FALSE}
    IN  {Shape("enumerated", st, FALSE, sk, sc, up) :
            st \in Stacks, sk \in skips, sc \in Scales, up \in BOOLEAN}
        \cup
        {Shape("sampled", st, ob[1], ob[2], sc, up) :
            st \in Stacks, ob \in BOOLEAN \X skips, sc \in Scales, up \in BOOLEAN}
        \cup
        {Shape(kd, {Plate("p", TRUE)}, FALSE, FALSE, 2, FALSE) :
            kd \in {"_Subsample", "do_not_score", "param"}}
        \cup
        {Shape("markov_chain", {Plate(pl, TRUE)}, FALSE, FALSE, 1, st # {}) :
            pl \in MarkovPlates, st \in Steps}

\* the record of shape sh at position j: a sample site is named after its
\* position, a marker after its plate; up makes the density depend on the
\* variable of the first site
NodeAt(j, sh, replay) ==
    LET name == SiteNames[j]
        deps == IF sh.up THEN {SiteNames[1]} ELSE {}
    IN  CASE sh.kind = "enumerated" ->
                SampleNode(name, sh.st, "Categorical", FALSE, TRUE, FALSE,
                           replay, sh.sk, sh.sc, deps)
          [] sh.kind = "sampled" ->
                SampleNode(name, sh.st, "Normal", FALSE, FALSE, sh.ob,
                           replay, sh.sk, sh.sc, deps)
          [] sh.kind = "_Subsample" ->
                SampleNode(name, sh.st, "_Subsample", FALSE, FALSE, FALSE,
                           replay, FALSE, sh.sc, {})
          [] sh.kind = "do_not_score" ->
                SampleNode(name, sh.st, "Normal", TRUE, FALSE, TRUE,
                           replay, FALSE, sh.sc, {})
          [] sh.kind = "markov_chain" ->
                OtherNode("markov_chain", (CHOOSE f \in sh.st : TRUE).name,
                          IF sh.up THEN {<<"prev", "curr">>} ELSE {})
          [] OTHER -> OtherNode("param", name, {})

BuildTrace(shs, replay) == [j \in 1..Len(shs) |-> NodeAt(j, shs[j], replay)]

\* tr.nodes is a dict: no two records share a name
UniqueNames(trace) ==
    \A x, y \in 1..Len(trace) : trace[x].name = trace[y].name => x = y

(***************************************************************************)
(* terms_from_trace, one record at a time                                  *)
(***************************************************************************)
InitTerms ==
    /\ pc = "loop"
    /\ \E replay \in BOOLEAN :
          \E shs \in [1..NumSites -> Shapes(replay)] :
              /\ tr = BuildTrace(shs, replay)
              /\ UniqueNames(tr)
    /\ i = 1
    /\ terms = EmptyTerms
    /\ path = "none"
    /\ guide_tr = <<>> /\ model_tr = <<>>
    /\ guide_terms = EmptyTerms /\ model_terms = EmptyTerms
    /\ contracted_factors = <<>> /\ uncontracted_factors = <<>>
    /\ eliminate = {} /\ guide_eliminate = {}
    /\ contracted_costs = <<>> /\ costs = <<>>
    /\ log_qs = <<>> /\ elbo = <<>> /\ k = 1

\* the body of `for name, node in tr.nodes.items()`
VisitNode ==
    /\ pc = "loop"
    /\ i <= Len(tr)
    /\ LET r == ProcessNode(terms, tr[i].name, tr[i])
       IN  /\ terms' = r.terms
           /\ tr' = [tr EXCEPT ![i] = r.node]
    /\ i' = i + 1
    /\ UNCHANGED <<pc, lossVars>>

\* after the loop: fill plate_to_step and return
ReturnTerms ==
    /\ pc = "loop"
    /\ i > Len(tr)
    /\ terms' = AddPlateSteps(terms)
    /\ pc' = "returned"
    /\ UNCHANGED <<tr, i, lossVars>>

NextTerms == VisitNode \/ ReturnTerms

SpecTerms == InitTerms /\ [][NextTerms]_vars

(***************************************************************************)
(* Properties of terms_from_trace (checked under SpecTerms)                *)
(***************************************************************************)
IsMarker(node) == node.type = "markov_chain"

\* a record the loop passes over without scoring, as the claims describe it
IsPassedOver(node) ==
    \/ node.type # "sample"
    \/ node.fn = "_Subsample"
    \/ node.infer.do_not_score

\* measure_vars as accumulated once record j has been through step 4
MeasureVarsAt(trace, j) == LoopFrom(EmptyTerms, SubSeq(trace, 1, j), 1).terms.measure_vars

\* the sites that qualify as the shared-scale site
SharedScaleCandidates(trace) ==
    {j \in 1..Len(trace) :
        /\ ~IsPassedOver(trace[j])
        /\ trace[j].replay_active
        /\ trace[j].funsor.log_prob.inputs \cap MeasureVarsAt(trace, j) # {}
        /\ trace[j].funsor.scale # 1}

\* C1: a trace with two or more shared-scale candidates never yields a returned
\* bundle (terms_from_trace fails instead of taking the scale of one of them).
C1_ScaleUniqueness ==
    pc = "returned" => Cardinality(SharedScaleCandidates(tr)) <= 1

\* C2: no step of terms_from_trace changes any field of any record of the trace.
C2_TraceNeverMutated == [][tr' = tr]_vars

\* C5: the returned bundle has a plate_to_step entry for every plate of
\* plate_vars; a plate named by a markov_chain record keeps that record's step
\* descriptor, wherever the record stands, and every other plate maps to the
\* empty descriptor.
C5_PlateToStepTotal ==
    pc = "returned" =>
        /\ terms.plate_vars \subseteq DOMAIN terms.plate_to_step
        /\ \A j \in 1..Len(tr) :
              IsMarker(tr[j]) =>
                  /\ tr[j].name \in DOMAIN terms.plate_to_step
                  /\ terms.plate_to_step[tr[j].name] = tr[j].value
        /\ \A pl \in terms.plate_vars :
              (\A j \in 1..Len(tr) : ~(IsMarker(tr[j]) /\ tr[j].name = pl))
                  => terms.plate_to_step[pl] = {}

\* C5 witness: a returned bundle where a marker with a non-empty descriptor
\* follows a scored site inside its plate, next to an ordinary plate.
C5_Witness ==
    /\ pc = "returned"
    /\ \E j1, j2 \in 1..Len(tr) :
          /\ j1 < j2
          /\ ~IsPassedOver(tr[j1])
          /\ IsMarker(tr[j2]) /\ tr[j2].value # {}
          /\ tr[j2].name \in VectorizedPlates(tr[j1])
          /\ terms.plate_to_step[tr[j2].name] # {}
          /\ \E pl \in terms.plate_vars : terms.plate_to_step[pl] = {}

KeptByClaim(node) ==
    ~IsPassedOver(node) /\ (node.is_observed \/ ~node.replay_skipped)

RECURSIVE SitesOf(_)
SitesOf(fs) == IF fs = <<>> THEN <<>> ELSE <<Head(fs).site>> \o SitesOf(Tail(fs))

RECURSIVE NamesOf(_)
NamesOf(trace) == IF trace = <<>> THEN <<>> ELSE <<Head(trace).name>> \o NamesOf(Tail(trace))

\* C7: log_factors holds, in trace order, exactly one entry (the site's
\* log_prob) for each scored site that is observed or was not skipped during
\* replay, and none for a latent site that replay skipped.
C7_LogFactorsMembership ==
    pc = "returned" =>
        /\ SitesOf(terms.log_factors) = NamesOf(SelectSeq(tr, KeptByClaim))
        /\ \A m \in 1..Len(terms.log_factors) :
              \E j \in 1..Len(tr) :
                  /\ tr[j].name = terms.log_factors[m].site
                  /\ tr[j].funsor.log_prob = terms.log_factors[m]

\* C7 witness: a returned bundle from a trace with an observed site that replay
\* skipped (kept) and a latent site that replay skipped (left out).
C7_Witness ==
    /\ pc = "returned"
    /\ \E j1, j2 \in 1..Len(tr) :
          /\ ~IsPassedOver(tr[j1]) /\ tr[j1].is_observed /\ tr[j1].replay_skipped
          /\ ~IsPassedOver(tr[j2]) /\ ~tr[j2].is_observed /\ tr[j2].replay_skipped
    /\ Len(terms.log_factors) = 1

\* C8: visiting a markov_chain record changes only plate_to_step, by
\* registering the record's step descriptor under its name; visiting any
\* record that is passed over (not a sample, a _Subsample pseudo-site, or
\* marked _do_not_score) leaves log_factors, log_measures, scale, plate_vars
\* and measure_vars as they were.
C8_PassedOverRecords ==
    [][(pc = "loop" /\ i <= Len(tr)) =>
          /\ IsMarker(tr[i]) =>
                terms' = [terms EXCEPT
                            !.plate_to_step = DictSet(@, tr[i].name, tr[i].value)]
          /\ IsPassedOver(tr[i]) =>
                /\ terms'.log_factors = terms.log_factors
                /\ terms'.log_measures = terms.log_measures
                /\ terms'.scale = terms.scale
                /\ terms'.plate_vars = terms.plate_vars
                /\ terms'.measure_vars = terms.measure_vars
          /\ (IsPassedOver(tr[i]) /\ ~IsMarker(tr[i])) => terms' = terms
      ]_vars

\* C8 witness: a marker and a _do_not_score site inside a vectorized plate have
\* both been visited; the plate is not in plate_vars.
C8_Witness ==
    /\ pc = "loop"
    /\ \E j1, j2 \in 1..(i - 1) :
          /\ IsMarker(tr[j1]) /\ tr[j1].name \in DOMAIN terms.plate_to_step
          /\ tr[j2].type = "sample" /\ tr[j2].infer.do_not_score
          /\ VectorizedPlates(tr[j2]) # {}
          /\ VectorizedPlates(tr[j2]) \cap terms.plate_vars = {}

(***************************************************************************)
(* Costs and the collaborators of differentiable_loss                      *)
(***************************************************************************)
\* a cost term: the site funsors combined in it, its inputs, the shared scale
\* multiplied onto it and its sign
AsCost(f) == [parts |-> {f}, inputs |-> f.inputs, scale |-> 1, sign |-> 1]
Scaled(c, scale) == [c EXCEPT !.scale = @ * scale]
Neg(f) == [AsCost(f) EXCEPT !.sign = -1]

AsCosts(fs) == [a \in 1..Len(fs) |-> AsCost(fs[a])]
ScaledAll(cs, scale) == [a \in 1..Len(cs) |-> Scaled(cs[a], scale)]
NegAll(fs) == [a \in 1..Len(fs) |-> Neg(fs[a])]

InputsOf(fs) == UNION {fs[a].inputs : a \in 1..Len(fs)}

\* the factors joined to those of S through a variable that is eliminated
RECURSIVE ComponentOf(_, _, _)
ComponentOf(fs, elim, S) ==
    LET T == S \cup {b \in 1..Len(fs) :
                       \E a \in S : fs[a].inputs \cap fs[b].inputs \cap elim # {}}
    IN  IF T = S THEN S ELSE ComponentOf(fs, elim, T)

RECURSIVE ResidualsFrom(_, _, _)
ResidualsFrom(fs, elim, a) ==
    IF a > Len(fs) THEN <<>>
    ELSE LET comp == ComponentOf(fs, elim, {a})
             here == IF \A b \in comp : b >= a
                     THEN <<[parts |-> {fs[b] : b \in comp},
                             inputs |-> UNION {fs[b].inputs : b \in comp} \ elim,
                             scale |-> 1, sign |-> 1]>>
                     ELSE <<>>
         IN  here \o ResidualsFrom(fs, elim, a + 1)

\* funsor.sum_product.partial_sum_product: one residual per connected component,
\* its inputs those of the component that are not eliminated
partial_sum_product(factors, plates, elim) == ResidualsFrom(factors, elim, 1)

\* funsor.sum_product.modified_partial_sum_product: the same contract, plates
\* with a step eliminated along the chain
modified_partial_sum_product(factors, plate_to_step, elim) == ResidualsFrom(factors, elim, 1)

\* funsor.sum_product.sum_product: the product of the residuals
sum_product(factors, plates, elim) == [inputs |-> InputsOf(factors) \ elim]

\* AdjointTape.adjoint: one marginal per target, over that target's inputs
adjoint(targets) == [t \in 1..Len(targets) |-> [inputs |-> targets[t].inputs]]

(***************************************************************************)
(* differentiable_loss                                                     *)
(***************************************************************************)
\* model_terms["measure_vars"].intersection(f.inputs)
IsContracted(f, t) == t.measure_vars \cap f.inputs # {}

ContractedFactors(t) == SelectSeq(t.log_factors, LAMBDA f : IsContracted(f, t))
UncontractedFactors(t) == SelectSeq(t.log_factors, LAMBDA f : ~IsContracted(f, t))

\* frozenset({plate for plate, step in plate_to_step.items() if step})
markov_dims(plate_to_step) == {pl \in DOMAIN plate_to_step : plate_to_step[pl] # {}}

\* faulty variant: the guide costs are left out
CostsWithoutGuide(cc, uf, gf) == cc \o AsCosts(uf)

\* costs = contracted_costs + uncontracted_factors; costs += [-f for f in guide log_factors]
Costs(cc, uf, gf) == (cc \o AsCosts(uf)) \o NegAll(gf)

\* faulty variant: when no marginal matches, the first one is taken
LookupMarginalOrFirst(qs, cost) ==
    LET hits == {t \in 1..Len(qs) : qs[t].inputs = cost.inputs}
    IN  IF hits # {} THEN CHOOSE t \in hits : \A u \in hits : t <= u
        ELSE IF Len(qs) > 0 THEN 1 ELSE 0

\* next(iter(log_q for log_q in log_qs if dict(log_q.inputs) == dict(cost.inputs))):
\* the index of the first match, 0 when the iterator is empty (StopIteration)
LookupMarginal(qs, cost) ==
    LET hits == {t \in 1..Len(qs) : qs[t].inputs = cost.inputs}
    IN  IF hits # {} THEN CHOOSE t \in hits : \A u \in hits : t <= u ELSE 0

\* faulty variant: the cost's own inputs are eliminated as well
PlateEliminateAll(plate_vars, gt, cost) == plate_vars \cup gt.measure_vars

\* eliminate=(plate_vars | guide_terms["measure_vars"]) - frozenset(cost.inputs)
PlateEliminate(plate_vars, gt, cost) == (plate_vars \cup gt.measure_vars) \ cost.inputs

(***************************************************************************)
(* The guide trace and the model trace replayed against it                 *)
(***************************************************************************)
LossStacks == {{}, {Plate("p", TRUE), Plate("q", TRUE)}}

\* guide records: enumerated latents, a sampled latent, a markov marker
GuideShapes ==
    {Shape("enumerated", st, FALSE, FALSE, 1, FALSE) : st \in LossStacks}
    \cup
    {Shape("sampled", {Plate("p", TRUE)}, FALSE, FALSE, 1, FALSE),
     Shape("markov_chain", {Plate("q", TRUE)}, FALSE, FALSE, 1, TRUE),
     Shape("param", {}, FALSE, FALSE, 1, FALSE)}

\* model records under replay: observed sites, latents enumerated in the model
\* (replay skipped them), latents replayed from the guide, a markov marker
ModelShapes ==
    {Shape("sampled", st, TRUE, TRUE, sc, up) :
        st \in LossStacks, sc \in Scales, up \in BOOLEAN}
    \cup
    {Shape("enumerated", st, FALSE, TRUE, sc, FALSE) : st \in LossStacks, sc \in Scales}
    \cup
    {Shape("replayed", {}, FALSE, FALSE, 1, TRUE),
     Shape("replayed", {Plate("p", TRUE)}, FALSE, FALSE, 1, FALSE),
     Shape("markov_chain", {Plate("q", TRUE)}, FALSE, FALSE, 1, TRUE)}

\* a latent of the model replayed from the guide: no measure of its own; its
\* density is over its own variable when the guide enumerated it (up)
ModelNodeAt(j, sh) ==
    IF sh.kind = "replayed"
    THEN SampleNode(SiteNames[j], sh.st, "Categorical", FALSE, FALSE, FALSE, TRUE, FALSE,
                    sh.sc, IF sh.up THEN {SiteNames[j]} ELSE {})
    ELSE NodeAt(j, sh, TRUE)

BuildModelTrace(shs) == [j \in 1..Len(shs) |-> ModelNodeAt(j, shs[j])]

InitLoss ==
    /\ pc = "start"
    /\ path \in {"plate", "markov"}
    /\ \E shs \in [1..NumGuideSites -> GuideShapes] :
          /\ guide_tr = BuildTrace(shs, FALSE)
          /\ UniqueNames(guide_tr)
    /\ \E shs \in [1..NumModelSites -> ModelShapes] :
          /\ model_tr = BuildModelTrace(shs)
          /\ UniqueNames(model_tr)
    /\ guide_terms = EmptyTerms /\ model_terms = EmptyTerms
    /\ contracted_factors = <<>> /\ uncontracted_factors = <<>>
    /\ eliminate = {} /\ guide_eliminate = {}
    /\ contracted_costs = <<>> /\ costs = <<>>
    /\ log_qs = <<>> /\ elbo = <<>> /\ k = 1
    /\ tr = <<>> /\ i = 1 /\ terms = EmptyTerms

\* guide_terms = terms_from_trace(guide_tr); model_terms = terms_from_trace(model_tr)
ExtractTerms ==
    /\ pc = "start"
    /\ LET g == terms_from_trace(guide_tr)
           m == terms_from_trace(model_tr)
       IN  /\ guide_terms' = g.terms /\ guide_tr' = g.tr
           /\ model_terms' = m.terms /\ model_tr' = m.tr
    /\ pc' = "extracted"
    /\ UNCHANGED <<termsVars, path, contracted_factors, uncontracted_factors, eliminate,
                   guide_eliminate, contracted_costs, costs, log_qs, elbo, k>>

\* TraceEnum_ELBO: partition the factors, contract, list the costs
BuildCostsPlate ==
    /\ pc = "extracted" /\ path = "plate"
    /\ LET cf == ContractedFactors(model_terms)
           uf == UncontractedFactors(model_terms)
           el == model_terms.measure_vars
           cc == ScaledAll(partial_sum_product(model_terms.log_measures \o cf,
                                               model_terms.plate_vars, el),
                           model_terms.scale)
       IN  /\ contracted_factors' = cf
           /\ uncontracted_factors' = uf
           /\ eliminate' = el
           /\ contracted_costs' = cc
           /\ costs' = Costs(cc, uf, guide_terms.log_factors)
    /\ pc' = "assemble"
    /\ UNCHANGED <<termsVars, path, guide_tr, model_tr, guide_terms, model_terms,
                   guide_eliminate, log_qs, elbo, k>>

\* TraceMarkovEnum_ELBO: the same, markov dimensions eliminated with the measures
BuildCostsMarkov ==
    /\ pc = "extracted" /\ path = "markov"
    /\ LET cf == ContractedFactors(model_terms)
           uf == UncontractedFactors(model_terms)
           el == model_terms.measure_vars \cup markov_dims(model_terms.plate_to_step)
           cc == ScaledAll(modified_partial_sum_product(model_terms.log_measures \o cf,
                                                        model_terms.plate_to_step, el),
                           model_terms.scale)
       IN  /\ contracted_factors' = cf
           /\ uncontracted_factors' = uf
           /\ eliminate' = el
           /\ contracted_costs' = cc
           /\ costs' = Costs(cc, uf, guide_terms.log_factors)
    /\ pc' = "marginals"
    /\ UNCHANGED <<termsVars, path, guide_tr, model_tr, guide_terms, model_terms,
                   guide_eliminate, log_qs, elbo, k>>

\* TraceMarkovEnum_ELBO: a probe per model cost, then all marginals in one pass
RecoverMarginals ==
    /\ pc = "marginals"
    /\ LET targets == (contracted_costs \o AsCosts(uncontracted_factors))
                          \o AsCosts(guide_terms.log_measures)
       IN  log_qs' = adjoint(targets)
    /\ guide_eliminate' = guide_terms.measure_vars \cup markov_dims(guide_terms.plate_to_step)
    /\ pc' = "assemble"
    /\ UNCHANGED <<termsVars, path, guide_tr, model_tr, guide_terms, model_terms,
                   contracted_factors, uncontracted_factors, eliminate,
                   contracted_costs, costs, elbo, k>>

\* TraceEnum_ELBO: one turn of `for cost in costs`
AccumulatePlate ==
    /\ pc = "assemble" /\ path = "plate"
    /\ k <= Len(costs)
    /\ LET cost == costs[k]
           plate_vars == guide_terms.plate_vars \cup model_terms.plate_vars
           log_prob == sum_product(guide_terms.log_measures, plate_vars,
                                   PlateEliminate(plate_vars, guide_terms, cost))
       IN  elbo' = Append(elbo, [cost |-> cost, log_prob |-> log_prob,
                                 integrate |-> guide_terms.measure_vars \cap cost.inputs,
                                 reduce |-> plate_vars \cap cost.inputs])
    /\ k' = k + 1
    /\ UNCHANGED <<pc, termsVars, path, guide_tr, model_tr, guide_terms, model_terms,
                   contracted_factors, uncontracted_factors, eliminate, guide_eliminate,
                   contracted_costs, costs, log_qs>>

\* TraceMarkovEnum_ELBO: one turn of `for cost in costs`; the lookup raises
\* StopIteration when no marginal has the cost's inputs
AccumulateMarkov ==
    /\ pc = "assemble" /\ path = "markov"
    /\ k <= Len(costs)
    /\ LET cost == costs[k]
           hit == LookupMarginal(log_qs, cost)
           over == cost.inputs \ DOMAIN guide_terms.plate_to_step
       IN  IF hit = 0
           THEN /\ pc' = "StopIteration"
                /\ UNCHANGED <<elbo, k>>
           ELSE /\ elbo' = Append(elbo, [cost |-> cost, log_prob |-> log_qs[hit],
                                         integrate |-> over,
                                         reduce |-> (log_qs[hit].inputs \cup cost.inputs) \ over])
                /\ k' = k + 1
                /\ pc' = pc
    /\ UNCHANGED <<termsVars, path, guide_tr, model_tr, guide_terms, model_terms,
                   contracted_factors, uncontracted_factors, eliminate, guide_eliminate,
                   contracted_costs, costs, log_qs>>

\* return -to_data(apply_optimizer(elbo))
ReturnLoss ==
    /\ pc = "assemble"
    /\ k > Len(costs)
    /\ pc' = "done"
    /\ UNCHANGED <<termsVars, lossVars>>

NextLoss ==
    \/ ExtractTerms
    \/ BuildCostsPlate
    \/ BuildCostsMarkov
    \/ RecoverMarginals
    \/ AccumulatePlate
    \/ AccumulateMarkov
    \/ ReturnLoss

Spec == InitLoss /\ [][NextLoss]_vars

(***************************************************************************)
(* Properties of differentiable_loss (checked under Spec)                  *)
(***************************************************************************)
CostsBuilt == pc \in {"marginals", "assemble", "done", "StopIteration"}

\* the inputs a guide log-measure carries
GuideMeasureInputs == InputsOf(guide_terms.log_measures)

\* C3 as stated: on both paths the marginal integrated against a cost has
\* exactly the cost's inputs.
C3_MarginalInputsEqual ==
    \A m \in 1..Len(elbo) : elbo[m].log_prob.inputs = elbo[m].cost.inputs

\* C3 amended: on the Markov path the marginal's inputs equal the cost's; on
\* the plate-parallel path they are the cost's inputs that a guide log-measure
\* carries: a subset of the cost's inputs, never a superset.
C3_MarginalInputsAmended ==
    \A m \in 1..Len(elbo) :
        /\ elbo[m].cost = costs[m]
        /\ path = "markov" => elbo[m].log_prob.inputs = costs[m].inputs
        /\ path = "plate" =>
              elbo[m].log_prob.inputs = costs[m].inputs \cap GuideMeasureInputs

\* C3 witness: the plate-parallel path has integrated a cost against a marginal
\* over some, but not all, of the cost's inputs.
C3_Witness ==
    /\ path = "plate"
    /\ \E m \in 1..Len(elbo) :
          /\ elbo[m].log_prob.inputs # {}
          /\ elbo[m].log_prob.inputs # elbo[m].cost.inputs
          /\ elbo[m].log_prob.inputs \subseteq elbo[m].cost.inputs

HasMarginal(cost) == \E t \in 1..Len(log_qs) : log_qs[t].inputs = cost.inputs

\* C4: on the Markov path the loop never passes a cost without a marginal over
\* exactly its inputs: it stops with an error at the first such cost, nothing
\* accumulated for it, and a loss is returned only when every cost, in order,
\* was paired with a marginal over its own inputs.
C4_LookupFailureFatal ==
    path = "markov" =>
        /\ \A m \in 1..Len(elbo) :
              /\ elbo[m].cost = costs[m]
              /\ elbo[m].log_prob.inputs = costs[m].inputs
        /\ pc \in {"assemble", "StopIteration"} =>
              /\ Len(elbo) = k - 1
              /\ \A m \in 1..(k - 1) : HasMarginal(costs[m])
        /\ pc = "StopIteration" => (k <= Len(costs) /\ ~HasMarginal(costs[k]))
        /\ pc = "done" =>
              /\ Len(elbo) = Len(costs)
              /\ \A m \in 1..Len(costs) : HasMarginal(costs[m])

\* C4 witness: the Markov path stopped at a negated guide log-factor, after
\* accumulating at least one cost.
C4_Witness ==
    /\ path = "markov"
    /\ pc = "StopIteration"
    /\ k > 1
    /\ costs[k].sign = -1

IndicesOf(seq, f) == {a \in 1..Len(seq) : seq[a] = f}

\* C9: every model log-factor is in exactly one group, contracted iff its
\* inputs meet the model's measure_vars; the costs are the engine's residuals
\* of log_measures + contracted factors, each times the shared scale, then the
\* uncontracted factors as they are, then each guide log-factor negated; and
\* the elbo holds one term per cost, in order, all of them once the loss returns.
C9_CostComposition ==
    CostsBuilt =>
        LET lf == model_terms.log_factors
            gf == guide_terms.log_factors
            nc == Len(contracted_costs)
            nu == Len(uncontracted_factors)
            res == ResidualsFrom(model_terms.log_measures \o contracted_factors, eliminate, 1)
        IN  /\ \A a \in 1..Len(lf) :
                  /\ Cardinality(IndicesOf(contracted_factors, lf[a]))
                       + Cardinality(IndicesOf(uncontracted_factors, lf[a])) = 1
                  /\ (IndicesOf(contracted_factors, lf[a]) # {})
                       <=> (lf[a].inputs \cap model_terms.measure_vars # {})
            /\ Len(contracted_factors) + nu = Len(lf)
            /\ nc = Len(res)
            /\ \A a \in 1..nc :
                  /\ contracted_costs[a] = [res[a] EXCEPT !.scale = model_terms.scale]
                  /\ costs[a] = contracted_costs[a]
            /\ Len(costs) = nc + nu + Len(gf)
            /\ \A a \in 1..nu :
                  costs[nc + a] = [parts |-> {uncontracted_factors[a]},
                                   inputs |-> uncontracted_factors[a].inputs,
                                   scale |-> 1, sign |-> 1]
            /\ \A a \in 1..Len(gf) :
                  costs[nc + nu + a] = [parts |-> {gf[a]}, inputs |-> gf[a].inputs,
                                        scale |-> 1, sign |-> -1]
            /\ Len(elbo) <= Len(costs)
            /\ \A m \in 1..Len(elbo) : elbo[m].cost = costs[m]
            /\ pc = "done" => Len(elbo) = Len(costs)

\* C9 witness: a returned loss whose costs had a contracted cost, an
\* uncontracted factor and a guide cost, one elbo term each.
C9_Witness ==
    /\ pc = "done"
    /\ Len(contracted_costs) >= 1
    /\ Len(uncontracted_factors) >= 1
    /\ Len(guide_terms.log_factors) >= 1
    /\ Len(elbo) = Len(costs)

\* the scale the trace records for a site
OwnScale(trace, site) ==
    LET j == CHOOSE x \in 1..Len(trace) : trace[x].name = site
    IN  trace[j].funsor.scale

\* C10: every model log-probability inside a model cost carries its site's own
\* scale exactly once: what was multiplied in at extraction times the shared
\* scale its cost received equals the site's scale.
C10_ScaleAppliedOnce ==
    CostsBuilt =>
        \A m \in 1..(Len(contracted_costs) + Len(uncontracted_factors)) :
            \A f \in costs[m].parts :
                f.mult * costs[m].scale = OwnScale(model_tr, f.site)

====
